---- MODULE Spec2Model ----
(***************************************************************************)
(* A model of the regular-expression engine of src/src/regex.c and         *)
(* src/src/nfa.c: tokenizer, concatenation expander, Shunting-Yard parser, *)
(* Thompson builder, automaton compiler and bit-set matcher.               *)
(*                                                                         *)
(* Characters are byte values (0..255).  A C string is a sequence of       *)
(* non-zero bytes; a token sequence is a sequence of [value, type]         *)
(* records; a uint64_t bit-set is the set of its bit positions.            *)
(***************************************************************************)
EXTENDS Integers, Sequences, FiniteSets, TLC

VARIABLES
    pc,          \* position in the pipeline
    regex_str,   \* the pattern handed to parse_regex
    step1,       \* parse_regex: the tokens of itemize_regex
    step2,       \* parse_regex: the tokens with explicit concatenation
    sy,          \* shunting_yard's locals: i, output, stack
    result,      \* the regex returned by parse_regex: [items, size]
    manager,     \* the states_manager of regex_to_nfa
    build,       \* regex_to_nfa's locals: i, stack of fragments
    automaton,   \* the nfa returned by t_nfa_to_nfa
    run,         \* match_nfa's locals: input, i, current, and its return value
    call,        \* the alphabet specification: the calls made so far, and the last one
    eps          \* epsilon_closure's locals: state, closure, stack

vars == <<pc, regex_str, step1, step2, sy, result, manager, build, automaton, run, call, eps>>

----------------------------------------------------------------------------
(* Bounds of the model.                                                    *)

\* longest pattern enumerated for the parser alone
MaxLen == 4
\* longest pattern enumerated for the whole pipeline
MaxBuildLen == 3
\* longest input string handed to match_nfa
MaxInput == 2
\* longest run of one literal, enough to build more states than a word has bits
MaxRun == 33
\* calls of add_symbol / add_transition in the alphabet specification
MaxCalls == 4

----------------------------------------------------------------------------
(* Symbols, src/src/regex.h.                                               *)

CONCAT_SYMBOL == 46
KLEENE_STAR_SYMBOL == 42
ALTERNATION_SYMBOL == 124
LEFT_PARENTHESIS_SYMBOL == 40
RIGHT_PARENTHESIS_SYMBOL == 41
POSITIVE_CLOSURE_SYMBOL == 43
OPTIONAL_SYMBOL == 63
ESCAPE_SYMBOL == 92

\* EPSILON_SYMBOL is defined in nfa.h: the distinguished epsilon byte,
\* here the string terminator, which no pattern holds.
EPSILON_SYMBOL == 0

\* width of a state-set word (uint64_t, 1ULL << id)
WordBits == 64

\* the null pointer, where a token array is expected
NULL == <<[value |-> 0, type |-> "NULL"]>>

\* the literals 'a' and 'b'
Literals == {97, 98}

\* the bytes patterns are made of
PatternChars ==
    Literals \cup {CONCAT_SYMBOL, KLEENE_STAR_SYMBOL, ALTERNATION_SYMBOL,
                   LEFT_PARENTHESIS_SYMBOL, RIGHT_PARENTHESIS_SYMBOL,
                   POSITIVE_CLOSURE_SYMBOL, OPTIONAL_SYMBOL, ESCAPE_SYMBOL}

\* the bytes input buffers are made of: match_nfa takes a length, so a
\* buffer may hold any byte, the epsilon byte included
InputChars == Literals \cup {KLEENE_STAR_SYMBOL, EPSILON_SYMBOL}

\* every byte the model ranges over
Bytes == PatternChars \cup InputChars \cup {99}

RECURSIVE StringsOf(_, _)
StringsOf(S, n) ==
    IF n = 0 THEN {<<>>}
    ELSE LET shorter == StringsOf(S, n - 1)
         IN  shorter \cup {Append(s, c) : s \in {t \in shorter : Len(t) = n - 1}, c \in S}

RECURSIVE Repeat(_, _)
Repeat(c, n) == IF n = 0 THEN <<>> ELSE Append(Repeat(c, n - 1), c)

\* longer patterns: the example of regex.h, "a(b|c)*", and "(ab)*c",
\* "(a|b)*", "(a*)*", "a|b|a", "(a|b)+a?", "a\*|b"
DocPatterns ==
    { <<97, 40, 98, 124, 99, 41, 42>>,
      <<40, 97, 98, 41, 42, 99>>,
      <<40, 97, 124, 98, 41, 42>>,
      <<40, 97, 42, 41, 42>>,
      <<97, 124, 98, 124, 97>>,
      <<40, 97, 124, 98, 41, 43, 97, 63>>,
      <<97, 92, 42, 124, 98>> }

\* the patterns handed to the parser alone
ParserPatterns == StringsOf(PatternChars, MaxLen) \cup DocPatterns

\* the patterns handed to the whole pipeline: the short ones, the longer
\* examples, and runs of a literal about half a word long
Patterns ==
    StringsOf(PatternChars, MaxBuildLen) \cup DocPatterns
        \cup {Repeat(97, n) : n \in (MaxRun - 1)..MaxRun}

Inputs == StringsOf(InputChars, MaxInput)

----------------------------------------------------------------------------
(* regex.c: tokens.                                                        *)

get_precedence(type) ==
    CASE type \in {"KLEENE_STAR", "POSITIVE_CLOSURE", "OPTIONAL"} -> 3
      [] type = "CONCATENATION" -> 2
      [] type = "ALTERNATION" -> 1
      [] OTHER -> 0

\* a plausible slip: the unary operators are left out of the left side
should_insert_concat_no_unary(current, next) ==
    LET left  == current.type \in {"OPERAND", "R_PARENTHESIS"}
        right == next.type \in {"OPERAND", "L_PARENTHESIS"}
    IN  left /\ right

should_insert_concat(current, next) ==
    LET left  == current.type \in {"OPERAND", "R_PARENTHESIS", "KLEENE_STAR",
                                   "POSITIVE_CLOSURE", "OPTIONAL"}
        right == next.type \in {"OPERAND", "L_PARENTHESIS"}
    IN  left /\ right

new_item(value, type) == [value |-> value, type |-> type]

get_item_type(c) ==
    CASE c = KLEENE_STAR_SYMBOL -> "KLEENE_STAR"
      [] c = POSITIVE_CLOSURE_SYMBOL -> "POSITIVE_CLOSURE"
      [] c = OPTIONAL_SYMBOL -> "OPTIONAL"
      [] c = CONCAT_SYMBOL -> "CONCATENATION"
      [] c = ALTERNATION_SYMBOL -> "ALTERNATION"
      [] c = LEFT_PARENTHESIS_SYMBOL -> "L_PARENTHESIS"
      [] c = RIGHT_PARENTHESIS_SYMBOL -> "R_PARENTHESIS"
      [] OTHER -> "OPERAND"

\* the for loop of itemize_regex; i is the 1-based index of regex_str[i-1]
RECURSIVE itemize_loop(_, _, _)
itemize_loop(s, i, items) ==
    IF i > Len(s) THEN items
    ELSE IF s[i] = ESCAPE_SYMBOL /\ i + 1 <= Len(s)
         THEN itemize_loop(s, i + 2, Append(items, new_item(s[i + 1], "OPERAND")))
         ELSE itemize_loop(s, i + 1, Append(items, new_item(s[i], get_item_type(s[i]))))

\* a plausible slip: the escape is emitted as a token of its own
itemize_regex_no_escape(s) ==
    [k \in 1..Len(s) |-> new_item(s[k], get_item_type(s[k]))]

itemize_regex(s) == itemize_loop(s, 1, <<>>)

\* malloc(0) may return NULL or a pointer: both outcomes of an empty pattern
itemize_outcomes(s) ==
    IF Len(s) = 0 THEN {NULL, <<>>} ELSE {itemize_regex(s)}

RECURSIVE expand_loop(_, _, _)
expand_loop(items, i, res) ==
    IF i > Len(items) THEN res
    ELSE LET r1 == Append(res, items[i])
         IN  IF i < Len(items) /\ should_insert_concat(items[i], items[i + 1])
             THEN expand_loop(items, i + 1,
                              Append(r1, new_item(CONCAT_SYMBOL, "CONCATENATION")))
             ELSE expand_loop(items, i + 1, r1)

implicit_to_explicit_concatenation(items) ==
    IF items = NULL \/ Len(items) <= 0 THEN NULL
    ELSE expand_loop(items, 1, <<>>)

----------------------------------------------------------------------------
(* regex.c: shunting_yard.  The operator stack is a sequence whose last    *)
(* element is stack[top].                                                  *)

Top(s) == s[Len(s)]
Pop(s) == SubSeq(s, 1, Len(s) - 1)

\* a plausible slip: > for >=, which groups equal precedence to the right
RECURSIVE sy_pop_operators_strict(_, _, _)
sy_pop_operators_strict(output, stack, current) ==
    IF Len(stack) > 0
       /\ Top(stack).type # "L_PARENTHESIS"
       /\ get_precedence(Top(stack).type) > get_precedence(current.type)
    THEN sy_pop_operators_strict(Append(output, Top(stack)), Pop(stack), current)
    ELSE [output |-> output, stack |-> stack]

\* the while loop of the operator case
RECURSIVE sy_pop_operators(_, _, _)
sy_pop_operators(output, stack, current) ==
    IF Len(stack) > 0
       /\ Top(stack).type # "L_PARENTHESIS"
       /\ get_precedence(Top(stack).type) >= get_precedence(current.type)
    THEN sy_pop_operators(Append(output, Top(stack)), Pop(stack), current)
    ELSE [output |-> output, stack |-> stack]

\* the while loop of the closing-parenthesis case
RECURSIVE sy_pop_to_paren(_, _)
sy_pop_to_paren(output, stack) ==
    IF Len(stack) > 0 /\ Top(stack).type # "L_PARENTHESIS"
    THEN sy_pop_to_paren(Append(output, Top(stack)), Pop(stack))
    ELSE [output |-> output, stack |-> stack]

\* a plausible slip: the closing parenthesis writes the opening one to the
\* output (output[out_count++] = stack[top--]) instead of dropping it
sy_token_keeps_parenthesis(output, stack, current) ==
    CASE current.type = "OPERAND" ->
            [ok |-> TRUE, output |-> Append(output, current), stack |-> stack]
      [] current.type \in {"KLEENE_STAR", "POSITIVE_CLOSURE", "OPTIONAL",
                           "CONCATENATION", "ALTERNATION"} ->
            LET p == sy_pop_operators(output, stack, current)
            IN  [ok |-> TRUE, output |-> p.output, stack |-> Append(p.stack, current)]
      [] current.type = "L_PARENTHESIS" ->
            [ok |-> TRUE, output |-> output, stack |-> Append(stack, current)]
      [] current.type = "R_PARENTHESIS" ->
            LET p == sy_pop_to_paren(output, stack)
            IN  IF Len(p.stack) = 0
                THEN [ok |-> FALSE, output |-> p.output, stack |-> p.stack]
                ELSE [ok |-> TRUE, output |-> Append(p.output, Top(p.stack)),
                      stack |-> Pop(p.stack)]

\* one iteration of the for loop, on token current
sy_token(output, stack, current) ==
    CASE current.type = "OPERAND" ->
            [ok |-> TRUE, output |-> Append(output, current), stack |-> stack]
      [] current.type \in {"KLEENE_STAR", "POSITIVE_CLOSURE", "OPTIONAL",
                           "CONCATENATION", "ALTERNATION"} ->
            LET p == sy_pop_operators(output, stack, current)
            IN  [ok |-> TRUE, output |-> p.output, stack |-> Append(p.stack, current)]
      [] current.type = "L_PARENTHESIS" ->
            [ok |-> TRUE, output |-> output, stack |-> Append(stack, current)]
      [] current.type = "R_PARENTHESIS" ->
            LET p == sy_pop_to_paren(output, stack)
            IN  IF Len(p.stack) = 0
                THEN [ok |-> FALSE, output |-> p.output, stack |-> p.stack]
                ELSE [ok |-> TRUE, output |-> p.output, stack |-> Pop(p.stack)]

\* a plausible slip: the final loop pops whatever is left
RECURSIVE sy_drain_unchecked(_, _)
sy_drain_unchecked(output, stack) ==
    IF Len(stack) = 0 THEN output
    ELSE IF Top(stack).type = "L_PARENTHESIS"
         THEN sy_drain_unchecked(output, Pop(stack))
         ELSE sy_drain_unchecked(Append(output, Top(stack)), Pop(stack))

\* the final while loop: NULL on an opening parenthesis left on the stack
RECURSIVE sy_drain(_, _)
sy_drain(output, stack) ==
    IF Len(stack) = 0 THEN output
    ELSE IF Top(stack).type = "L_PARENTHESIS" THEN NULL
         ELSE sy_drain(Append(output, Top(stack)), Pop(stack))

EmptyRegex == [items |-> NULL, size |-> 0]

----------------------------------------------------------------------------
(* nfa.c: alphabet and states manager.  char_to_col is kept for the bytes  *)
(* the model ranges over; symbols[col] is the element col + 1 of a         *)
(* sequence.                                                               *)

new_alphabet ==
    [char_to_col  |-> [c \in Bytes |-> IF c = EPSILON_SYMBOL THEN 0 ELSE -1],
     symbols      |-> <<EPSILON_SYMBOL>>,
     symbol_count |-> 1]

\* symbols[col] = symbol, on a sequence
SetAt(seq, col, v) ==
    IF col + 1 <= Len(seq) THEN [seq EXCEPT ![col + 1] = v] ELSE Append(seq, v)

\* a plausible slip: the test for a symbol already present is missing
add_symbol_no_lookup(a, symbol) ==
    IF symbol = EPSILON_SYMBOL THEN a
    ELSE [char_to_col  |-> [a.char_to_col EXCEPT ![symbol] = a.symbol_count],
          symbols      |-> SetAt(a.symbols, a.symbol_count, symbol),
          symbol_count |-> a.symbol_count + 1]

add_symbol(a, symbol) ==
    IF symbol = EPSILON_SYMBOL THEN a
    ELSE IF a.char_to_col[symbol] # -1 THEN a
    ELSE [char_to_col  |-> [a.char_to_col EXCEPT ![symbol] = a.symbol_count],
          symbols      |-> SetAt(a.symbols, a.symbol_count, symbol),
          symbol_count |-> a.symbol_count + 1]

new_states_manager ==
    [next_id          |-> 0,
     states           |-> <<>>,
     transitions      |-> <<>>,
     manager_alphabet |-> new_alphabet]

\* states_count and transitions_count are the lengths of the two arrays
states_count(m) == Len(m.states)

\* uint8_t id = manager->next_id++
new_state(m) ==
    [id      |-> m.next_id,
     manager |-> [m EXCEPT !.next_id = (m.next_id + 1) % 256,
                           !.states  = Append(m.states, m.next_id)]]

add_transition(m, from_state, symbol, to_state) ==
    [m EXCEPT !.transitions =
                  Append(m.transitions,
                         [from_state |-> from_state, symbol |-> symbol,
                          to_state |-> to_state]),
              !.manager_alphabet = add_symbol(m.manager_alphabet, symbol)]

----------------------------------------------------------------------------
(* nfa.c: Thompson fragments.  Each builder returns the new manager and    *)
(* the fragment.                                                           *)

Fragment(s, e) == [start |-> s, end |-> e]

symbol_nfa(m, symbol) ==
    LET s == new_state(m)
        e == new_state(s.manager)
    IN  [manager |-> add_transition(e.manager, s.id, symbol, e.id),
         nfa     |-> Fragment(s.id, e.id)]

concat_nfa(m, a, b) ==
    [manager |-> add_transition(m, a.end, EPSILON_SYMBOL, b.start),
     nfa     |-> Fragment(a.start, b.end)]

union_nfa(m, a, b) ==
    LET s  == new_state(m)
        e  == new_state(s.manager)
        m1 == add_transition(e.manager, s.id, EPSILON_SYMBOL, a.start)
        m2 == add_transition(m1, s.id, EPSILON_SYMBOL, b.start)
        m3 == add_transition(m2, a.end, EPSILON_SYMBOL, e.id)
        m4 == add_transition(m3, b.end, EPSILON_SYMBOL, e.id)
    IN  [manager |-> m4, nfa |-> Fragment(s.id, e.id)]

\* a plausible slip: the loop-back edge is added to the operand in place,
\* without a fresh start and end state
positive_closure_nfa_in_place(m, a) ==
    [manager |-> add_transition(m, a.end, EPSILON_SYMBOL, a.start),
     nfa     |-> Fragment(a.start, a.end)]

positive_closure_nfa(m, a) ==
    LET s  == new_state(m)
        e  == new_state(s.manager)
        m1 == add_transition(e.manager, s.id, EPSILON_SYMBOL, a.start)
        m2 == add_transition(m1, a.end, EPSILON_SYMBOL, a.start)
        m3 == add_transition(m2, a.end, EPSILON_SYMBOL, e.id)
    IN  [manager |-> m3, nfa |-> Fragment(s.id, e.id)]

kleene_closure_nfa(m, a) ==
    LET r == positive_closure_nfa(m, a)
    IN  [manager |-> add_transition(r.manager, r.nfa.start, EPSILON_SYMBOL, r.nfa.end),
         nfa     |-> r.nfa]

optional_nfa(m, a) ==
    LET s  == new_state(m)
        e  == new_state(s.manager)
        m1 == add_transition(e.manager, s.id, EPSILON_SYMBOL, a.start)
        m2 == add_transition(m1, s.id, EPSILON_SYMBOL, e.id)
        m3 == add_transition(m2, a.end, EPSILON_SYMBOL, e.id)
    IN  [manager |-> m3, nfa |-> Fragment(s.id, e.id)]

\* the operands an operator pops
Arity(type) ==
    CASE type \in {"CONCATENATION", "ALTERNATION"} -> 2
      [] type \in {"KLEENE_STAR", "POSITIVE_CLOSURE", "OPTIONAL"} -> 1
      [] OTHER -> 0

\* One iteration of regex_to_nfa's loop.  stack[top--] with top < 0 reads
\* below the array: ok is FALSE and nothing more is said of the outcome.
regex_to_nfa_token(m, stack, current) ==
    IF Len(stack) < Arity(current.type)
    THEN [ok |-> FALSE, manager |-> m, stack |-> stack]
    ELSE CASE current.type = "OPERAND" ->
                 LET r == symbol_nfa(m, current.value)
                 IN  [ok |-> TRUE, manager |-> r.manager, stack |-> Append(stack, r.nfa)]
           [] current.type \in {"CONCATENATION", "ALTERNATION"} ->
                 LET b == Top(stack)
                     a == Top(Pop(stack))
                     r == IF current.type = "CONCATENATION"
                          THEN concat_nfa(m, a, b) ELSE union_nfa(m, a, b)
                 IN  [ok |-> TRUE, manager |-> r.manager,
                      stack |-> Append(Pop(Pop(stack)), r.nfa)]
           [] current.type \in {"KLEENE_STAR", "POSITIVE_CLOSURE", "OPTIONAL"} ->
                 LET a == Top(stack)
                     r == CASE current.type = "KLEENE_STAR" -> kleene_closure_nfa(m, a)
                            [] current.type = "POSITIVE_CLOSURE" -> positive_closure_nfa(m, a)
                            [] OTHER -> optional_nfa(m, a)
                 IN  [ok |-> TRUE, manager |-> r.manager,
                      stack |-> Append(Pop(stack), r.nfa)]
           [] OTHER -> [ok |-> TRUE, manager |-> m, stack |-> stack]

----------------------------------------------------------------------------
(* nfa.c: the compiled automaton.                                          *)

Min(S) == CHOOSE x \in S : \A y \in S : x <= y

epsilon_col(n) == n.alphabet.char_to_col[EPSILON_SYMBOL]

\* One iteration of epsilon_closure's while loop: s = ctz(stack),
\* stack &= ~(1ULL << s), and unless s is in the closure already,
\* closure |= 1ULL << s and stack |= transitions[s][epsilon_col].
eps_step(n, closure, stack) ==
    LET s == Min(stack)
        rest == stack \ {s}
    IN  IF s \in closure
        THEN [closure |-> closure, stack |-> rest]
        ELSE [closure |-> closure \cup {s},
              stack   |-> rest \cup n.transitions[s][epsilon_col(n)]]

RECURSIVE eps_loop(_, _, _)
eps_loop(n, closure, stack) ==
    IF stack = {} THEN closure
    ELSE LET r == eps_step(n, closure, stack)
         IN  eps_loop(n, r.closure, r.stack)

\* a plausible slip: stack = next for stack |= next, which forgets the
\* states still waiting on the work set
epsilon_closure_assign(n, state) ==
    LET RECURSIVE loop(_, _)
        loop(closure, stack) ==
            IF stack = {} THEN closure
            ELSE LET s == Min(stack)
                 IN  IF s \in closure THEN loop(closure, stack \ {s})
                     ELSE loop(closure \cup {s}, n.transitions[s][epsilon_col(n)])
    IN  loop({}, {state})

epsilon_closure(n, state) == eps_loop(n, {}, {state})

calculate_epsilon_closure(n) ==
    [s \in 0..(n.states - 1) |-> epsilon_closure(n, s)]

\* The automaton of t_nfa_to_nfa.  Called with states_count <= WordBits:
\* every 1ULL << id is then defined.
t_nfa_to_nfa(temp_nfa, m) ==
    LET S == states_count(m)
        A == m.manager_alphabet.symbol_count
        col(t) == m.manager_alphabet.char_to_col[t.symbol]
        T == [s \in 0..(S - 1) |->
                [c \in 0..(A - 1) |->
                    {m.transitions[k].to_state : k \in
                        {j \in 1..Len(m.transitions) :
                            /\ m.transitions[j].from_state = s
                            /\ col(m.transitions[j]) = c}}]]
        n == [start_state      |-> temp_nfa.start,
              states           |-> S,
              accept_states    |-> {temp_nfa.end},
              alphabet         |-> m.manager_alphabet,
              transitions      |-> T,
              epsilon_closures |-> <<>>]
    IN  [n EXCEPT !.epsilon_closures = calculate_epsilon_closure(n)]

\* One iteration of match_nfa's loop on byte c: the new current set, and
\* whether the function returns false here.
match_step(n, current, c) ==
    LET col == n.alphabet.char_to_col[c]
    IN  IF col = -1 THEN [fail |-> TRUE, current |-> current]
        ELSE LET next == UNION {n.transitions[s][col] : s \in current}
                 expanded == UNION {n.epsilon_closures[s] : s \in next}
             IN  [fail |-> expanded = {}, current |-> expanded]

----------------------------------------------------------------------------
(* The pipeline: parse_regex, regex_to_nfa, match_nfa, called in the order *)
(* of test_strings_stdin (main.c).                                         *)

NoLocals == [i |-> 0, output |-> <<>>, stack |-> <<>>]
NoBuild == [i |-> 0, stack |-> <<>>]
NoAutomaton ==
    [start_state |-> 0, states |-> 0, accept_states |-> {},
     alphabet |-> new_alphabet, transitions |-> <<>>, epsilon_closures |-> <<>>]
NoRun == [input |-> <<>>, i |-> 0, current |-> {}, returned |-> FALSE, value |-> FALSE]
NoEps == [state |-> 0, closure |-> {}, stack |-> {}]
NoCall == [n |-> 0, op |-> "none", symbol |-> EPSILON_SYMBOL,
           before |-> new_alphabet, seen |-> <<>>]

Init ==
    /\ pc = "parse_regex"
    /\ regex_str \in Patterns
    /\ step1 = <<>>
    /\ step2 = <<>>
    /\ sy = NoLocals
    /\ result = EmptyRegex
    /\ manager = new_states_manager
    /\ build = NoBuild
    /\ automaton = NoAutomaton
    /\ run = NoRun
    /\ call = NoCall
    /\ eps = NoEps

\* parse_regex, step 1: itemize_regex
Itemize ==
    /\ pc = "parse_regex"
    /\ \E items \in itemize_outcomes(regex_str) :
          IF items = NULL
          THEN /\ pc' = "parsed"
               /\ step1' = step1
          ELSE /\ pc' = "itemized"
               /\ step1' = items
    /\ UNCHANGED <<regex_str, step2, sy, result, manager, build, automaton, run, call, eps>>

\* parse_regex, step 2: implicit_to_explicit_concatenation
Expand ==
    /\ pc = "itemized"
    /\ LET items == implicit_to_explicit_concatenation(step1)
       IN  IF items = NULL
           THEN /\ pc' = "parsed"
                /\ step2' = step2
           ELSE /\ pc' = "expanded"
                /\ step2' = items
    /\ UNCHANGED <<regex_str, step1, sy, result, manager, build, automaton, run, call, eps>>

\* shunting_yard: the allocations and out_count = 0, top = -1
ShuntingYardBegin ==
    /\ pc = "expanded"
    /\ IF Len(step2) <= 0
       THEN /\ pc' = "parsed"
            /\ sy' = sy
       ELSE /\ pc' = "shunting_yard"
            /\ sy' = [i |-> 1, output |-> <<>>, stack |-> <<>>]
    /\ UNCHANGED <<regex_str, step1, step2, result, manager, build, automaton, run, call, eps>>

\* shunting_yard: one iteration of the for loop
ShuntingYardToken ==
    /\ pc = "shunting_yard"
    /\ sy.i <= Len(step2)
    /\ LET r == sy_token(sy.output, sy.stack, step2[sy.i])
       IN  IF r.ok
           THEN /\ sy' = [i |-> sy.i + 1, output |-> r.output, stack |-> r.stack]
                /\ pc' = pc
           ELSE /\ sy' = [sy EXCEPT !.output = r.output, !.stack = r.stack]
                /\ pc' = "parsed"
    /\ UNCHANGED <<regex_str, step1, step2, result, manager, build, automaton, run, call, eps>>

\* shunting_yard: the final loop, and parse_regex's return
ShuntingYardEnd ==
    /\ pc = "shunting_yard"
    /\ sy.i > Len(step2)
    /\ LET out == sy_drain(sy.output, sy.stack)
       IN  result' = IF out = NULL THEN EmptyRegex
                     ELSE [items |-> out, size |-> Len(out)]
    /\ pc' = "parsed"
    /\ UNCHANGED <<regex_str, step1, step2, sy, manager, build, automaton, run, call, eps>>

\* regex_to_nfa: new_states_manager and top = -1
BuildBegin ==
    /\ pc = "parsed"
    /\ manager' = new_states_manager
    /\ build' = [i |-> 1, stack |-> <<>>]
    /\ pc' = "regex_to_nfa"
    /\ UNCHANGED <<regex_str, step1, step2, sy, result, automaton, run, call, eps>>

\* regex_to_nfa: one iteration of the for loop
BuildToken ==
    /\ pc = "regex_to_nfa"
    /\ build.i <= result.size
    /\ LET r == regex_to_nfa_token(manager, build.stack, result.items[build.i])
       IN  IF r.ok
           THEN /\ manager' = r.manager
                /\ build' = [i |-> build.i + 1, stack |-> r.stack]
                /\ pc' = pc
           ELSE /\ UNCHANGED <<manager, build>>
                /\ pc' = "undefined_underflow"
    /\ UNCHANGED <<regex_str, step1, step2, sy, result, automaton, run, call, eps>>

\* regex_to_nfa: final_fragment = stack[top], then t_nfa_to_nfa.  Reading
\* stack[-1], or shifting 1ULL by a state id of 64 or more, is undefined.
BuildEnd ==
    /\ pc = "regex_to_nfa"
    /\ build.i > result.size
    /\ IF Len(build.stack) = 0
       THEN /\ pc' = "undefined_underflow"
            /\ automaton' = automaton
       ELSE IF states_count(manager) > WordBits
       THEN /\ pc' = "undefined_shift"
            /\ automaton' = automaton
       ELSE /\ pc' = "compiled"
            /\ automaton' = t_nfa_to_nfa(Top(build.stack), manager)
    /\ UNCHANGED <<regex_str, step1, step2, sy, result, manager, build, run, call, eps>>

\* match_nfa: current = epsilon_closures[start_state]
MatchBegin ==
    /\ pc = "compiled"
    /\ \E input \in Inputs :
          run' = [input |-> input, i |-> 1,
                  current |-> automaton.epsilon_closures[automaton.start_state],
                  returned |-> FALSE, value |-> FALSE]
    /\ pc' = "match_nfa"
    /\ UNCHANGED <<regex_str, step1, step2, sy, result, manager, build, automaton, call, eps>>

\* match_nfa: one iteration of the for loop
MatchByte ==
    /\ pc = "match_nfa"
    /\ run.i <= Len(run.input)
    /\ LET r == match_step(automaton, run.current, run.input[run.i])
       IN  IF r.fail
           THEN /\ run' = [run EXCEPT !.returned = TRUE, !.value = FALSE]
                /\ pc' = "done"
           ELSE /\ run' = [run EXCEPT !.i = run.i + 1, !.current = r.current]
                /\ pc' = pc
    /\ UNCHANGED <<regex_str, step1, step2, sy, result, manager, build, automaton, call, eps>>

\* match_nfa: return (current & accept_states) != 0
MatchEnd ==
    /\ pc = "match_nfa"
    /\ run.i > Len(run.input)
    /\ run' = [run EXCEPT !.returned = TRUE,
                          !.value = (run.current \cap automaton.accept_states # {})]
    /\ pc' = "done"
    /\ UNCHANGED <<regex_str, step1, step2, sy, result, manager, build, automaton, call, eps>>

Next ==
    \/ Itemize
    \/ Expand
    \/ ShuntingYardBegin
    \/ ShuntingYardToken
    \/ ShuntingYardEnd
    \/ BuildBegin
    \/ BuildToken
    \/ BuildEnd
    \/ MatchBegin
    \/ MatchByte
    \/ MatchEnd

Spec == Init /\ [][Next]_vars

\* parse_regex alone, as print_postfix(parse_regex(regex_str)) of main.c
InitParse ==
    /\ pc = "parse_regex"
    /\ regex_str \in ParserPatterns
    /\ step1 = <<>>
    /\ step2 = <<>>
    /\ sy = NoLocals
    /\ result = EmptyRegex
    /\ manager = new_states_manager
    /\ build = NoBuild
    /\ automaton = NoAutomaton
    /\ run = NoRun
    /\ call = NoCall
    /\ eps = NoEps

NextParse ==
    \/ Itemize
    \/ Expand
    \/ ShuntingYardBegin
    \/ ShuntingYardToken
    \/ ShuntingYardEnd

SpecParse == InitParse /\ [][NextParse]_vars

----------------------------------------------------------------------------
(* calculate_epsilon_closure step by step: the for loop over the states    *)
(* and, for each, epsilon_closure's while loop on the work set, run on     *)
(* the transition table of the automaton just built.                       *)

\* a plausible slip: the test for a state already in the closure is
\* missing, so a state on an epsilon cycle is expanded again and again
epsilon_closure_iteration_revisit(n, closure, stack) ==
    LET s == Min(stack)
    IN  [closure |-> closure \cup {s},
         stack   |-> (stack \ {s}) \cup n.transitions[s][epsilon_col(n)]]

\* the body of epsilon_closure's while loop, as the step-by-step run takes it
epsilon_closure_iteration(n, closure, stack) == eps_step(n, closure, stack)

\* calculate_epsilon_closure: i = 0, and epsilon_closure's closure = 0,
\* stack = 1ULL << state
ClosureBegin ==
    /\ pc = "compiled"
    /\ eps' = [state |-> 0, closure |-> {}, stack |-> {0}]
    /\ pc' = "epsilon_closure"
    /\ UNCHANGED <<regex_str, step1, step2, sy, result, manager, build, automaton, run, call>>

\* epsilon_closure: one iteration of while (stack)
ClosureStep ==
    /\ pc = "epsilon_closure"
    /\ eps.stack # {}
    /\ LET r == epsilon_closure_iteration(automaton, eps.closure, eps.stack)
       IN  eps' = [eps EXCEPT !.closure = r.closure, !.stack = r.stack]
    /\ UNCHANGED <<pc, regex_str, step1, step2, sy, result, manager, build, automaton, run, call>>

\* epsilon_closure: the loop has ended, epsilon_closures[state] = closure;
\* calculate_epsilon_closure: i++, and the next state or the return
ClosureEnd ==
    /\ pc = "epsilon_closure"
    /\ eps.stack = {}
    /\ IF eps.state + 1 < automaton.states
       THEN /\ eps' = [state |-> eps.state + 1, closure |-> {},
                       stack |-> {eps.state + 1}]
            /\ pc' = pc
       ELSE /\ eps' = eps
            /\ pc' = "closed"
    /\ UNCHANGED <<regex_str, step1, step2, sy, result, manager, build, automaton, run, call>>

NextClosure ==
    \/ Itemize
    \/ Expand
    \/ ShuntingYardBegin
    \/ ShuntingYardToken
    \/ ShuntingYardEnd
    \/ BuildBegin
    \/ BuildToken
    \/ BuildEnd
    \/ ClosureBegin
    \/ ClosureStep
    \/ ClosureEnd

\* the program is sequential: once epsilon_closure's loop is entered, an
\* iteration that can be taken is taken
SpecClosure == Init /\ [][NextClosure]_vars /\ WF_vars(ClosureStep \/ ClosureEnd)

----------------------------------------------------------------------------
(* Reference semantics, against which the claims are stated: the grammar   *)
(*     alt ::= cat ('|' cat)*     cat ::= rep (['.'] rep)*                  *)
(*     rep ::= atom ('*' | '+' | '?')*     atom ::= literal | '(' alt ')'   *)
(* read by recursive descent.  A parse yields the post-order of its tree   *)
(* and the words of its language that are no longer than MaxInput.         *)

\* the type of an unescaped character: the reserved characters
\* * + ? . | ( ) and, for every other character, a literal
RefType(c) ==
    CASE c = 42 -> "KLEENE_STAR"
      [] c = 43 -> "POSITIVE_CLOSURE"
      [] c = 63 -> "OPTIONAL"
      [] c = 46 -> "CONCATENATION"
      [] c = 124 -> "ALTERNATION"
      [] c = 40 -> "L_PARENTHESIS"
      [] c = 41 -> "R_PARENTHESIS"
      [] OTHER -> "OPERAND"

\* the tokens of a pattern, read from the front
RECURSIVE RefTokens(_)
RefTokens(s) ==
    IF Len(s) = 0 THEN <<>>
    ELSE IF Head(s) = 92 /\ Len(s) >= 2
         THEN <<[value |-> s[2], type |-> "OPERAND"]>> \o RefTokens(Tail(Tail(s)))
         ELSE <<[value |-> Head(s), type |-> RefType(Head(s))]>> \o RefTokens(Tail(s))

LCat(A, B) == {w \in {u \o v : u \in A, v \in B} : Len(w) <= MaxInput}

RECURSIVE LStarFrom(_, _)
LStarFrom(X, A) ==
    LET Y == X \cup LCat(X, A)
    IN  IF Y = X THEN X ELSE LStarFrom(Y, A)

LStar(A) == LStarFrom({<<>>}, A)
LPlus(A) == LCat(A, LStar(A))

RefFail(pos) == [ok |-> FALSE, pos |-> pos, post |-> <<>>, lang |-> {}]

IsType(toks, pos, types) == pos <= Len(toks) /\ toks[pos].type \in types

RECURSIVE RefAlt(_, _)
RECURSIVE RefAltRest(_, _)
RECURSIVE RefCat(_, _)
RECURSIVE RefCatRest(_, _)
RECURSIVE RefRep(_, _)
RECURSIVE RefRepRest(_, _)
RECURSIVE RefAtom(_, _)

RefAtom(toks, pos) ==
    IF IsType(toks, pos, {"OPERAND"})
    THEN [ok |-> TRUE, pos |-> pos + 1, post |-> <<toks[pos]>>,
          lang |-> {w \in {<<toks[pos].value>>} : Len(w) <= MaxInput}]
    ELSE IF IsType(toks, pos, {"L_PARENTHESIS"})
    THEN LET r == RefAlt(toks, pos + 1)
         IN  IF r.ok /\ IsType(toks, r.pos, {"R_PARENTHESIS"})
             THEN [r EXCEPT !.pos = r.pos + 1]
             ELSE RefFail(pos)
    ELSE RefFail(pos)

RefRepRest(toks, l) ==
    IF IsType(toks, l.pos, {"KLEENE_STAR", "POSITIVE_CLOSURE", "OPTIONAL"})
    THEN LET t == toks[l.pos]
         IN  RefRepRest(toks,
                 [ok |-> TRUE, pos |-> l.pos + 1, post |-> Append(l.post, t),
                  lang |-> CASE t.type = "KLEENE_STAR" -> LStar(l.lang)
                             [] t.type = "POSITIVE_CLOSURE" -> LPlus(l.lang)
                             [] OTHER -> l.lang \cup {<<>>}])
    ELSE l

RefRep(toks, pos) ==
    LET a == RefAtom(toks, pos)
    IN  IF a.ok THEN RefRepRest(toks, a) ELSE a

RefCatRest(toks, l) ==
    IF IsType(toks, l.pos, {"CONCATENATION"})
    THEN LET r == RefRep(toks, l.pos + 1)
         IN  IF r.ok
             THEN RefCatRest(toks,
                     [ok |-> TRUE, pos |-> r.pos,
                      post |-> Append(l.post \o r.post, toks[l.pos]),
                      lang |-> LCat(l.lang, r.lang)])
             ELSE RefFail(l.pos)
    ELSE IF IsType(toks, l.pos, {"OPERAND", "L_PARENTHESIS"})
    THEN LET r == RefRep(toks, l.pos)
         IN  IF r.ok
             THEN RefCatRest(toks,
                     [ok |-> TRUE, pos |-> r.pos, post |-> l.post \o r.post,
                      lang |-> LCat(l.lang, r.lang)])
             ELSE RefFail(l.pos)
    ELSE l

RefCat(toks, pos) ==
    LET r == RefRep(toks, pos)
    IN  IF r.ok THEN RefCatRest(toks, r) ELSE r

RefAltRest(toks, l) ==
    IF IsType(toks, l.pos, {"ALTERNATION"})
    THEN LET r == RefCat(toks, l.pos + 1)
         IN  IF r.ok
             THEN RefAltRest(toks,
                     [ok |-> TRUE, pos |-> r.pos,
                      post |-> Append(l.post \o r.post, toks[l.pos]),
                      lang |-> l.lang \cup r.lang])
             ELSE RefFail(l.pos)
    ELSE l

RefAlt(toks, pos) ==
    LET r == RefCat(toks, pos)
    IN  IF r.ok THEN RefAltRest(toks, r) ELSE r

RefParse(toks) ==
    LET r == RefAlt(toks, 1)
    IN  IF r.ok /\ r.pos = Len(toks) + 1 THEN r ELSE RefFail(r.pos)

\* a token sequence, or a pattern, of the grammar
WellFormed(toks) == RefParse(toks).ok
ValidPattern(s) == WellFormed(RefTokens(s))

\* the words of the pattern's language no longer than MaxInput
Language(s) == RefParse(RefTokens(s)).lang

----------------------------------------------------------------------------
(* The alphabet under arbitrary calls: add_symbol and add_transition on a  *)
(* fresh states manager.  call records the number of calls, the last call, *)
(* the alphabet before it and every symbol passed so far.                  *)

\* the symbols passed to the calls
SymbolChars == Literals \cup {KLEENE_STAR_SYMBOL, EPSILON_SYMBOL}
\* the (from_state, to_state) pairs passed to add_transition
StatePairs == {<<0, 1>>, <<1, 0>>}

InitAlphabet ==
    /\ pc = "alphabet"
    /\ regex_str = <<>>
    /\ step1 = <<>>
    /\ step2 = <<>>
    /\ sy = NoLocals
    /\ result = EmptyRegex
    /\ manager = new_states_manager
    /\ build = NoBuild
    /\ automaton = NoAutomaton
    /\ run = NoRun
    /\ call = NoCall
    /\ eps = NoEps

CallAddSymbol ==
    /\ pc = "alphabet"
    /\ call.n < MaxCalls
    /\ \E c \in SymbolChars :
          /\ manager' = [manager EXCEPT
                            !.manager_alphabet = add_symbol(manager.manager_alphabet, c)]
          /\ call' = [n |-> call.n + 1, op |-> "add_symbol", symbol |-> c,
                      before |-> manager.manager_alphabet, seen |-> Append(call.seen, c)]
    /\ UNCHANGED <<pc, regex_str, step1, step2, sy, result, build, automaton, run, eps>>

CallAddTransition ==
    /\ pc = "alphabet"
    /\ call.n < MaxCalls
    /\ \E c \in SymbolChars, e \in StatePairs :
          /\ manager' = add_transition(manager, e[1], c, e[2])
          /\ call' = [n |-> call.n + 1, op |-> "add_transition", symbol |-> c,
                      before |-> manager.manager_alphabet, seen |-> Append(call.seen, c)]
    /\ UNCHANGED <<pc, regex_str, step1, step2, sy, result, build, automaton, run, eps>>

NextAlphabet ==
    \/ CallAddSymbol
    \/ CallAddTransition

SpecAlphabet == InitAlphabet /\ [][NextAlphabet]_vars

----------------------------------------------------------------------------
(* Properties.                                                             *)

Parsing == {"parse_regex", "itemized", "expanded", "shunting_yard"}
Undefined == {"undefined_underflow", "undefined_shift"}
Accepted == pc \notin Parsing /\ result.items # NULL

\* the literal symbols of the parsed pattern: the symbols symbol_nfa is
\* called with
PatternLiterals ==
    {result.items[k].value :
        k \in {j \in 1..result.size : result.items[j].type = "OPERAND"}}

\* C1: for every syntactically valid pattern and every input, match_nfa on
\* the compiled automaton returns true exactly when the whole input is in
\* the pattern's language (and compilation gets that far).
C1_MatchIsLanguageMembership ==
    ValidPattern(regex_str) =>
        /\ pc \notin Undefined
        /\ pc = "done" => (run.value = (run.input \in Language(regex_str)))

\* Supporting C1: the same, for inputs without the epsilon byte and
\* patterns whose automaton fits a word.
MatchIsLanguageMembershipOnPatternBytes ==
    (/\ pc = "done"
     /\ ValidPattern(regex_str)
     /\ \A k \in 1..Len(run.input) : run.input[k] # EPSILON_SYMBOL)
        => (run.value = (run.input \in Language(regex_str)))

\* whether the unescaped parentheses of s are unbalanced, from index i at
\* nesting depth d
RECURSIVE UnbalancedFrom(_, _, _)
UnbalancedFrom(s, i, d) ==
    IF i > Len(s) THEN d # 0
    ELSE IF s[i] = 92 /\ i < Len(s) THEN UnbalancedFrom(s, i + 2, d)
    ELSE IF s[i] = 40 THEN UnbalancedFrom(s, i + 1, d + 1)
    ELSE IF s[i] = 41 THEN (d = 0 \/ UnbalancedFrom(s, i + 1, d - 1))
    ELSE UnbalancedFrom(s, i + 1, d)

Unbalanced(s) == UnbalancedFrom(s, 1, 0)

\* C2: a pattern whose unescaped parentheses are unbalanced makes
\* shunting_yard fail, and parse_regex returns items NULL, size 0.
C2_UnbalancedIsRejected ==
    (pc \notin Parsing /\ Unbalanced(regex_str)) =>
        /\ result = EmptyRegex
        /\ sy.i >= 1
        /\ \/ sy.i <= Len(step2) /\ step2[sy.i].type = "R_PARENTHESIS"
           \/ sy.i > Len(step2)
              /\ \E k \in 1..Len(sy.stack) : sy.stack[k].type = "L_PARENTHESIS"

\* C2's case: both kinds of failure, a ")" with nothing open and a "("
\* never closed
C2_Witness ==
    /\ pc = "parsed"
    /\ Unbalanced(regex_str)
    /\ result = EmptyRegex
    /\ sy.i > Len(step2)
    /\ Len(step2) >= 2

C2_WitnessClosing ==
    /\ pc = "parsed"
    /\ Unbalanced(regex_str)
    /\ sy.i <= Len(step2)

\* C3: on a pattern the parser accepts, regex_to_nfa never pops, nor reads
\* stack[top], with top < 0.
C3_NoUnderflowOnAcceptedPattern ==
    Accepted => pc # "undefined_underflow"

\* C4: an input holding a byte that is no literal symbol of the pattern is
\* not matched.
C4_UnknownByteIsRejected ==
    (/\ pc = "done"
     /\ \E k \in 1..Len(run.input) : run.input[k] \notin PatternLiterals)
        => run.value = FALSE

\* C5: the automaton of a parser-accepted pattern has at most 64 states.
C5_StateCountFitsWord ==
    Accepted => states_count(manager) <= WordBits

\* the index in s at which each token starts
RECURSIVE TokenStarts(_, _)
TokenStarts(s, i) ==
    IF i > Len(s) THEN <<>>
    ELSE <<i>> \o TokenStarts(s, IF s[i] = 92 /\ i < Len(s) THEN i + 2 ELSE i + 1)

EscapePairs(s) ==
    Cardinality({k \in 1..Len(TokenStarts(s, 1)) :
                    LET i == TokenStarts(s, 1)[k] IN s[i] = 92 /\ i < Len(s)})

\* C6: itemize_regex emits one token per character, in order, but for an
\* escape and the character after it, which make one literal token holding
\* that character; a trailing escape is a literal escape.
C6_OneTokenPerCharacter ==
    pc = "itemized" =>
        LET s  == regex_str
            st == TokenStarts(s, 1)
        IN  /\ Len(step1) = Len(st)
            /\ Len(step1) = Len(s) - EscapePairs(s)
            /\ \A k \in 1..Len(st) :
                  LET i == st[k]
                  IN  IF s[i] = 92 /\ i < Len(s)
                      THEN step1[k] = [value |-> s[i + 1], type |-> "OPERAND"]
                      ELSE IF s[i] = 92
                      THEN step1[k] = [value |-> 92, type |-> "OPERAND"]
                      ELSE step1[k] = [value |-> s[i], type |-> RefType(s[i])]

\* C6's case: an escaped operator and a trailing escape in one pattern
C6_Witness ==
    /\ pc = "itemized"
    /\ Len(regex_str) = 3
    /\ regex_str[1] = 92 /\ regex_str[2] = 42 /\ regex_str[3] = 92
    /\ Len(step1) = 2
    /\ step1[1] = [value |-> 42, type |-> "OPERAND"]
    /\ step1[2] = [value |-> 92, type |-> "OPERAND"]

LeftEnd == {"OPERAND", "R_PARENTHESIS", "KLEENE_STAR", "POSITIVE_CLOSURE", "OPTIONAL"}
RightStart == {"OPERAND", "L_PARENTHESIS"}
Juxtaposed(l, r) == l.type \in LeftEnd /\ r.type \in RightStart

\* a token sequence of the grammar in which no two tokens are juxtaposed
WellFormedExpanded(toks) ==
    /\ WellFormed(toks)
    /\ \A k \in 1..(Len(toks) - 1) : ~Juxtaposed(toks[k], toks[k + 1])

\* C7: on a well-formed expanded token sequence shunting_yard returns the
\* post-order of the expression tree (unary tightest, then concatenation,
\* then alternation, binary operators grouped to the left), without
\* parentheses.
C7_PostfixIsPostOrder ==
    (pc = "parsed" /\ WellFormedExpanded(step2)) =>
        /\ result.items = RefParse(step2).post
        /\ result.size = Len(result.items)
        /\ \A k \in 1..result.size :
              result.items[k].type \notin {"L_PARENTHESIS", "R_PARENTHESIS"}

\* C7's case: the example of regex.h, a(b|c)* gives abc|*.
C7_Witness ==
    /\ pc = "parsed"
    /\ regex_str = <<97, 40, 98, 124, 99, 41, 42>>
    /\ WellFormedExpanded(step2)
    /\ [k \in 1..result.size |-> result.items[k].value] = <<97, 98, 99, 124, 42, 46>>

\* the positions of step2 that hold the tokens of step1, given that a
\* concatenation follows token k exactly when it is juxtaposed to the next
RECURSIVE ExpandedIndex(_, _)
ExpandedIndex(items, k) ==
    IF k = 1 THEN 1
    ELSE ExpandedIndex(items, k - 1)
            + (IF Juxtaposed(items[k - 1], items[k]) THEN 2 ELSE 1)

\* C8: the expander returns the tokens unchanged and in order, with one
\* concatenation token between two adjacent tokens exactly when the left
\* one ends an expression and the right one starts one, none elsewhere.
C8_ConcatenationExactlyBetweenJuxtaposed ==
    pc = "expanded" =>
        LET n == Len(step1)
            at(k) == ExpandedIndex(step1, k)
        IN  /\ n >= 1
            /\ Len(step2) = at(n)
            /\ \A k \in 1..n : step2[at(k)] = step1[k]
            /\ \A k \in 1..(n - 1) :
                  IF Juxtaposed(step1[k], step1[k + 1])
                  THEN /\ at(k + 1) = at(k) + 2
                       /\ step2[at(k) + 1] = [value |-> 46, type |-> "CONCATENATION"]
                  ELSE at(k + 1) = at(k) + 1

\* C8's case: a concatenation after a unary operator and none before it
C8_Witness ==
    /\ pc = "expanded"
    /\ Len(step1) = 3
    /\ step1[2].type = "KLEENE_STAR"
    /\ step1[3].type = "OPERAND"
    /\ Len(step2) = 4
    /\ step2[3].type = "CONCATENATION"

\* the symbols passed so far, each once, in the order first seen
RECURSIVE FirstSeen(_)
FirstSeen(seen) ==
    IF Len(seen) = 0 THEN <<>>
    ELSE LET before == FirstSeen(SubSeq(seen, 1, Len(seen) - 1))
             c == seen[Len(seen)]
         IN  IF c = EPSILON_SYMBOL \/ \E k \in 1..Len(before) : before[k] = c
             THEN before ELSE Append(before, c)

Registered(a) == {c \in Bytes : a.char_to_col[c] # -1}

\* C9: after any calls of add_symbol and add_transition on a fresh
\* alphabet, epsilon has column 0, the symbols have the columns 1, 2, ...
\* in the order first seen, symbols[char_to_col[s]] = s, symbol_count is
\* the number of distinct symbols plus one, every symbol of a recorded
\* transition has a column, and adding a registered symbol or epsilon
\* again changes nothing.
C9_AlphabetColumns ==
    LET a == manager.manager_alphabet
        order == FirstSeen(call.seen)
    IN  /\ a.char_to_col[EPSILON_SYMBOL] = 0
        /\ a.symbols = <<EPSILON_SYMBOL>> \o order
        /\ a.symbol_count = Len(order) + 1
        /\ Registered(a) = {EPSILON_SYMBOL} \cup {order[k] : k \in 1..Len(order)}
        /\ \A k \in 1..Len(order) : a.char_to_col[order[k]] = k
        /\ \A c \in Registered(a) : a.symbols[a.char_to_col[c] + 1] = c
        /\ \A c, d \in Registered(a) : c # d => a.char_to_col[c] # a.char_to_col[d]
        /\ \A k \in 1..Len(manager.transitions) :
              manager.transitions[k].symbol \in Registered(a)
        /\ (call.op # "none" /\ call.symbol \in Registered(call.before))
              => a = call.before

\* C9's case: three columns, two symbols in the order seen, and the last
\* call adds a symbol again
C9_Witness ==
    /\ pc = "alphabet"
    /\ manager.manager_alphabet.symbols = <<EPSILON_SYMBOL, 98, 97>>
    /\ call.op = "add_transition"
    /\ call.symbol = 98
    /\ call.before = manager.manager_alphabet
    /\ Len(manager.transitions) >= 2

\* the epsilon transitions recorded by the builder, as pairs
EpsilonEdges ==
    {<<manager.transitions[k].from_state, manager.transitions[k].to_state>> :
        k \in {j \in 1..Len(manager.transitions) :
                  manager.transitions[j].symbol = EPSILON_SYMBOL}}

\* the states reachable from X by zero or more epsilon transitions
RECURSIVE EpsilonReach(_)
EpsilonReach(X) ==
    LET Y == X \cup {e[2] : e \in {d \in EpsilonEdges : d[1] \in X}}
    IN  IF Y = X THEN X ELSE EpsilonReach(Y)

\* C10: epsilon_closures[s] is exactly the set of states reachable from s
\* by zero or more epsilon transitions.
C10_ClosureIsEpsilonReachability ==
    pc = "compiled" =>
        \A s \in 0..(automaton.states - 1) :
            /\ s \in automaton.epsilon_closures[s]
            /\ automaton.epsilon_closures[s] = EpsilonReach({s})

\* C10's case: an automaton with an epsilon cycle and a state with two
\* epsilon successors
C10_Witness ==
    /\ pc = "compiled"
    /\ \E s, t \in 0..(automaton.states - 1) :
          /\ s # t
          /\ s \in automaton.epsilon_closures[t]
          /\ t \in automaton.epsilon_closures[s]
    /\ \E s \in 0..(automaton.states - 1) :
          Cardinality(automaton.transitions[s][0]) = 2

\* C11: the epsilon-closure computation terminates for every state of
\* every automaton built, epsilon cycles included: the work set becomes
\* empty, the loop over the states ends, and a state already in the
\* closure is only taken off the work set, never expanded again.
C11_ClosureTerminates ==
    /\ (pc = "epsilon_closure" /\ eps.stack # {}) ~> (eps.stack = {})
    /\ (pc = "epsilon_closure") ~> (pc = "closed")
    /\ [][(pc = "epsilon_closure" /\ eps.stack # {}
             /\ Min(eps.stack) \in eps.closure)
          => (/\ eps'.closure = eps.closure
              /\ eps'.stack = eps.stack \ {Min(eps.stack)})]_vars

\* C11's case: the loop has ended on an automaton with an epsilon cycle,
\* and the closure of the last state was computed step by step
C11_Witness ==
    /\ pc = "closed"
    /\ \E s, t \in 0..(automaton.states - 1) :
          /\ s # t
          /\ <<s, t>> \in EpsilonEdges
          /\ s \in EpsilonReach({t})
    /\ eps.state = automaton.states - 1
    /\ eps.closure = automaton.epsilon_closures[eps.state]

----------------------------------------------------------------------------
(* match_nfa's state-set against reachability in the builder's graph.      *)

\* the states entered from X by one transition labelled with the byte c;
\* no path spells the epsilon symbol, it is not a label of the input
LabelledStep(X, c) ==
    IF c = EPSILON_SYMBOL THEN {}
    ELSE {manager.transitions[k].to_state :
             k \in {j \in 1..Len(manager.transitions) :
                       /\ manager.transitions[j].symbol = c
                       /\ manager.transitions[j].from_state \in X}}

\* the states reachable from the start state by paths whose non-epsilon
\* labels spell w
RECURSIVE ReachableBy(_)
ReachableBy(w) ==
    IF w = <<>> THEN EpsilonReach({automaton.start_state})
    ELSE EpsilonReach(LabelledStep(ReachableBy(SubSeq(w, 1, Len(w) - 1)), w[Len(w)]))

\* the prefix of the input consumed so far
Consumed == SubSeq(run.input, 1, run.i - 1)

\* C12: in match_nfa, after each prefix of the input (the empty one
\* included), current is exactly the set of states reachable from the start
\* state by paths spelling that prefix; it is closed under epsilon
\* transitions and holds only ids below the state count.
C12_CurrentIsReachableSet ==
    pc = "match_nfa" =>
        /\ run.current = ReachableBy(Consumed)
        /\ EpsilonReach(run.current) = run.current
        /\ run.current \subseteq 0..(automaton.states - 1)

\* the same on inputs whose consumed prefix is free of the epsilon byte
CurrentIsReachableSetOnLabelBytes ==
    (pc = "match_nfa" /\ \A k \in 1..Len(Consumed) : Consumed[k] # EPSILON_SYMBOL) =>
        /\ run.current = ReachableBy(Consumed)
        /\ EpsilonReach(run.current) = run.current
        /\ run.current \subseteq 0..(automaton.states - 1)

\* a non-empty prefix was consumed and left more than one state current
CurrentIsReachableSetOnLabelBytes_Witness ==
    /\ pc = "match_nfa"
    /\ run.i > 1
    /\ \A k \in 1..Len(Consumed) : Consumed[k] # EPSILON_SYMBOL
    /\ Cardinality(run.current) > 1

----------------------------------------------------------------------------
(* The fragments on regex_to_nfa's stack.                                  *)

\* the states reachable from X along the builder's transitions, any label
RECURSIVE Reach(_)
Reach(X) ==
    LET Y == X \cup {manager.transitions[k].to_state :
                        k \in {j \in 1..Len(manager.transitions) :
                                  manager.transitions[j].from_state \in X}}
    IN  IF Y = X THEN X ELSE Reach(Y)

\* the states of a fragment: those its start state leads to
FragmentStates(f) == Reach({f.start})

Incoming(s) ==
    {k \in 1..Len(manager.transitions) : manager.transitions[k].to_state = s}

Outgoing(s) ==
    {k \in 1..Len(manager.transitions) : manager.transitions[k].from_state = s}

\* C13: every fragment on the builder's stack has a start state with no
\* incoming transition and an end state with no outgoing transition, its
\* end is among its states, and distinct fragments on the stack share no
\* state; this holds after every token, so each composition preserves it.
C13_FragmentsAreWellShaped ==
    pc = "regex_to_nfa" =>
        /\ \A k \in 1..Len(build.stack) :
              /\ Incoming(build.stack[k].start) = {}
              /\ Outgoing(build.stack[k].end) = {}
              /\ build.stack[k].end \in FragmentStates(build.stack[k])
        /\ \A k, l \in 1..Len(build.stack) :
              k # l => FragmentStates(build.stack[k])
                          \cap FragmentStates(build.stack[l]) = {}

\* C13's case: two fragments on the stack, the upper one composed with a
\* closure (it holds a transition back into itself)
C13_Witness ==
    /\ pc = "regex_to_nfa"
    /\ Len(build.stack) = 2
    /\ LET S == FragmentStates(build.stack[2])
       IN  /\ Cardinality(S) > 2
           /\ \E k \in 1..Len(manager.transitions) :
                 /\ manager.transitions[k].from_state \in S
                 /\ manager.transitions[k].to_state
                        \in Reach({manager.transitions[k].to_state}) \ {build.stack[2].end}
                 /\ manager.transitions[k].from_state
                        \in Reach({manager.transitions[k].to_state})

----------------------------------------------------------------------------
(* shunting_yard's two buffers, each allocated for size items.             *)

\* the parenthesis tokens among the first n tokens of shunting_yard's input
ParenthesisTokens(n) ==
    {k \in 1..n : step2[k].type \in {"L_PARENTHESIS", "R_PARENTHESIS"}}

\* the tokens of the input that shunting_yard's loop has consumed
TokensConsumed == sy.i - 1

\* C14: in shunting_yard, out_count plus the height of the operator stack
\* never exceeds the number of input tokens consumed, so neither buffer of
\* size items is written past its end; on success the output length is
\* size minus the number of parenthesis tokens of the input.
C14_BuffersWithinSize ==
    /\ pc = "shunting_yard" =>
          /\ Len(sy.output) + Len(sy.stack) <= TokensConsumed
          /\ TokensConsumed <= Len(step2)
          /\ Len(sy.output) <= Len(step2)
          /\ Len(sy.stack) <= Len(step2)
    /\ (pc = "parsed" /\ result.items # NULL) =>
          /\ Len(result.items) = result.size
          /\ result.size = Len(step2) - Cardinality(ParenthesisTokens(Len(step2)))

\* C14's case: shunting_yard succeeded on an input with parentheses and
\* operators, after a run that had tokens on the stack
C14_Witness ==
    /\ pc = "parsed"
    /\ result.items # NULL
    /\ Cardinality(ParenthesisTokens(Len(step2))) >= 2
    /\ result.size >= 3
    /\ Len(sy.stack) >= 1

====
